---- MODULE Spec2Model ----
(***************************************************************************)
(* A model of the nb blockchain node: the ledger engine of                 *)
(* src/src/blockchain.rs (Block, Blockchain, Transaction) and the node of  *)
(* src/src/node.rs (Node, its event loop and its handlers).                *)
(***************************************************************************)
EXTENDS Integers, Sequences, FiniteSets, TLC

\* ------------------------------------------------------------------ bounds

\* A chain is explored up to this number of blocks, genesis included.
MaxLen == 3
\* The number of Broadcast events waiting in the event queue.
MaxQueue == 1

\* ------------------------------------------------------------------ data

\* Node::basic_info: this node's PeerInfo {id, address}.
basic_info == [id |-> "n0", address |-> 0]

\* The PeerInfo values a request can carry. Equality is by the full value,
\* so a peer that shares the node's id at another address is another peer.
PeerUniverse == {basic_info, [id |-> "n1", address |-> 1]}

\* Uuid::new_v4(): the uuids this node draws, in the order it draws them (for
\* its user and reward transactions). Peers cannot name a uuid before the
\* node has drawn it.
LocalIds == <<"u1", "u2">>
Uuid(n) == LocalIds[n]
Range(f) == {f[i] : i \in DOMAIN f}

\* The transaction ids peers mint themselves.
PeerIds == {"p1"}

\* Transaction::new(sender, recipient, amount) with a given id.
Transaction(id, sender, recipient, amount) ==
    [id |-> id, sender |-> sender, recipient |-> recipient, amount |-> amount]

\* A user's transfer under each of the ids.
UserTxsOf(ids) == {Transaction(id, "a", "b", 1) : id \in ids}

\* The wall-clock values get_time() returns.
Times == {1}

\* A String that holds a hash, or the literal "1", is modelled as the tuple of
\* its parts; One is String::from("1").
One == <<"1">>

\* Block::get_genesis
get_genesis ==
    [index |-> 0, timestamp |-> 0, proof |-> 100, transactions |-> <<>>,
     previous_hash |-> One]

\* Block::get_hash: SHA-256 of the block's JSON serialisation. The digest is
\* modelled as collision free: it is the serialisation of the whole block
\* (index, timestamp, proof, transactions, previous_hash), so two blocks have
\* equal hashes exactly when all their fields agree, and no hash is "1".
get_hash(b) == <<b.index, b.timestamp, b.proof, b.transactions, b.previous_hash>>

\* The proofs in play: the proof-of-work line from genesis
\* (100 -> 35293 -> 35089 -> 119678 -> 146502 -> 43538), the second-smallest
\* valid proof after 100 and its proof-of-work line
\* (88145 -> 24936 -> 324245 -> 10155), and the proof of the repository's
\* test that is valid after none of them and its line (456 -> 19610 -> 12102).
Proofs ==
    {100, 456, 10155, 12102, 19610, 24936, 35089, 35293, 43538, 88145, 119678, 146502,
     324245}
ProofsAscending ==
    <<100, 456, 10155, 12102, 19610, 24936, 35089, 35293, 43538, 88145, 119678, 146502,
      324245>>

\* The pairs (last_proof, proof) of Proofs for which the SHA-256 digest of
\* the two decimal texts, concatenated, starts with "0000". For each first
\* component the smallest second component is the smallest over all integers.
LeadingZeroes ==
    {<<100, 35293>>, <<100, 88145>>, <<456, 19610>>, <<19610, 12102>>, <<24936, 324245>>,
     <<35089, 119678>>, <<35293, 35089>>, <<88145, 24936>>, <<119678, 146502>>,
     <<146502, 43538>>, <<324245, 10155>>}

\* Blockchain::valid_proof
valid_proof(last_proof, proof) == <<last_proof, proof>> \in LeadingZeroes

\* proof_of_work that keeps searching: the largest valid proof, not the smallest.
proof_of_work_Largest(last_proof) ==
    LET valid == {p \in Proofs : valid_proof(last_proof, p)}
    IN  IF valid = {} THEN 0 ELSE CHOOSE p \in valid : \A q \in valid : q <= p

\* Blockchain::proof_of_work: the search upwards from 0, here over the
\* proofs in play in ascending order.
RECURSIVE proof_of_work_from(_, _)
proof_of_work_from(last_proof, k) ==
    IF valid_proof(last_proof, ProofsAscending[k])
    THEN ProofsAscending[k]
    ELSE proof_of_work_from(last_proof, k + 1)
proof_of_work(last_proof) == proof_of_work_from(last_proof, 1)

\* ------------------------------------------------------------------ ledger

\* struct Blockchain {current_transactions, blocks}; Blockchain::new
Blockchain_new == [current_transactions |-> <<>>, blocks |-> <<get_genesis>>]

\* Blockchain::from_blocks
from_blocks(blocks) == [current_transactions |-> <<>>, blocks |-> blocks]

\* Option::unwrap of None: the thread panics.
Panicked == [panic |-> "unwrap on None"]

\* Blockchain::last_block: blocks.last().unwrap()
last_block(c) == IF c.blocks = <<>> THEN Panicked ELSE c.blocks[Len(c.blocks)]

\* The ids of the transactions of a sequence, and of all blocks of a chain.
IdsOf(txs) == {txs[i].id : i \in 1..Len(txs)}
BlockIds(blocks) == UNION {IdsOf(blocks[i].transactions) : i \in 1..Len(blocks)}

\* add_new_transaction that scans the pool and not the blocks.
add_new_transaction_NoChainScan(c, transaction) ==
    IF transaction.id \in IdsOf(c.current_transactions)
    THEN [chain |-> c, ret |-> FALSE]
    ELSE [chain |-> [c EXCEPT !.current_transactions = Append(@, transaction)],
          ret |-> TRUE]

\* Blockchain::add_new_transaction: [chain, ret]
add_new_transaction(c, transaction) ==
    IF \E i \in 1..Len(c.current_transactions) :
           c.current_transactions[i].id = transaction.id
    THEN [chain |-> c, ret |-> FALSE]
    ELSE IF \E b \in 1..Len(c.blocks) : \E i \in 1..Len(c.blocks[b].transactions) :
                c.blocks[b].transactions[i].id = transaction.id
    THEN [chain |-> c, ret |-> FALSE]
    ELSE [chain |-> [c EXCEPT !.current_transactions = Append(@, transaction)],
          ret |-> TRUE]

\* create_new_block that copies the pool into the block and keeps it.
create_new_block_KeepPool(c, proof, previous_hash, now) ==
    LET block == [index |-> Len(c.blocks), timestamp |-> now, proof |-> proof,
                  transactions |-> c.current_transactions,
                  previous_hash |-> previous_hash]
    IN  [chain |-> [c EXCEPT !.blocks = Append(@, block)], ret |-> block]

\* Blockchain::create_new_block, with the value get_time() returned: [chain, ret]
create_new_block(c, proof, previous_hash, now) ==
    LET block == [index |-> Len(c.blocks), timestamp |-> now, proof |-> proof,
                  transactions |-> c.current_transactions,
                  previous_hash |-> previous_hash]
        pushed == [current_transactions |-> <<>>, blocks |-> Append(c.blocks, block)]
    IN  [chain |-> pushed, ret |-> last_block(pushed)]

\* A removal that drops the last element whatever i is.
swap_remove_PopsLast(v, i) == SubSeq(v, 1, Len(v) - 1)

\* Vec::swap_remove(i): the last element takes the place of element i.
swap_remove(v, i) ==
    IF i = Len(v)
    THEN SubSeq(v, 1, Len(v) - 1)
    ELSE [k \in 1..(Len(v) - 1) |-> IF k = i THEN v[Len(v)] ELSE v[k]]

\* The while loop of add_new_block for one transaction id, from position i.
RECURSIVE remove_id(_, _, _)
remove_id(v, id, i) ==
    IF i > Len(v) THEN v
    ELSE IF v[i].id = id THEN remove_id(swap_remove(v, i), id, i)
    ELSE remove_id(v, id, i + 1)

\* The for loop of add_new_block over block.transactions, from position k.
RECURSIVE remove_duplicates(_, _, _)
remove_duplicates(v, txs, k) ==
    IF k > Len(txs) THEN v
    ELSE remove_duplicates(remove_id(v, txs[k].id, 1), txs, k + 1)

\* add_new_block that checks the index only.
add_new_block_NoLinkCheck(c, block) ==
    IF block.index # Len(c.blocks)
    THEN [chain |-> c, ret |-> FALSE]
    ELSE [chain |-> [current_transactions |->
                         remove_duplicates(c.current_transactions, block.transactions, 1),
                     blocks |-> Append(c.blocks, block)],
          ret |-> TRUE]

\* add_new_block that purges the pool before it checks the block.
add_new_block_PurgesFirst(c, block) ==
    LET purged == remove_duplicates(c.current_transactions, block.transactions, 1)
    IN  IF block.index # Len(c.blocks)
           \/ get_hash(last_block(c)) # block.previous_hash
           \/ ~valid_proof(last_block(c).proof, block.proof)
        THEN [chain |-> [c EXCEPT !.current_transactions = purged], ret |-> FALSE]
        ELSE [chain |-> [current_transactions |-> purged,
                         blocks |-> Append(c.blocks, block)],
              ret |-> TRUE]

\* add_new_block that lets a stale block overwrite the block at its index.
add_new_block_OverwritesStale(c, block) ==
    LET block_idx == block.index
        current_len == Len(c.blocks)
    IN  IF block_idx < current_len
        THEN [chain |-> [c EXCEPT !.blocks[block_idx + 1] = block], ret |-> FALSE]
        ELSE IF block_idx = current_len
        THEN IF get_hash(last_block(c)) # block.previous_hash
                \/ ~valid_proof(last_block(c).proof, block.proof)
             THEN [chain |-> c, ret |-> FALSE]
             ELSE [chain |-> [current_transactions |->
                                  remove_duplicates(c.current_transactions,
                                                    block.transactions, 1),
                              blocks |-> Append(c.blocks, block)],
                   ret |-> TRUE]
        ELSE [chain |-> c, ret |-> FALSE]

\* add_new_block that checks the link and the proof and not the index.
add_new_block_IgnoresIndex(c, block) ==
    IF get_hash(last_block(c)) # block.previous_hash
       \/ ~valid_proof(last_block(c).proof, block.proof)
    THEN [chain |-> c, ret |-> FALSE]
    ELSE [chain |-> [current_transactions |->
                         remove_duplicates(c.current_transactions, block.transactions, 1),
                     blocks |-> Append(c.blocks, block)],
          ret |-> TRUE]

\* Blockchain::add_new_block: [chain, ret]
add_new_block(c, block) ==
    LET block_idx == block.index
        current_len == Len(c.blocks)
    IN  IF block_idx < current_len
        THEN [chain |-> c, ret |-> FALSE]
        ELSE IF block_idx = current_len
        THEN IF get_hash(last_block(c)) # block.previous_hash
                \/ ~valid_proof(last_block(c).proof, block.proof)
             THEN [chain |-> c, ret |-> FALSE]
             ELSE [chain |-> [current_transactions |->
                                  remove_duplicates(c.current_transactions,
                                                    block.transactions, 1),
                              blocks |-> Append(c.blocks, block)],
                   ret |-> TRUE]
        ELSE [chain |-> c, ret |-> FALSE]

\* valid_chain that compares the hashes and not the proofs.
valid_chain_NoProofCheck(c) ==
    IF c.blocks[1].proof # 100
       \/ c.blocks[1].transactions # <<>>
       \/ c.blocks[1].previous_hash # One
    THEN FALSE
    ELSE \A i \in 2..Len(c.blocks) :
             get_hash(c.blocks[i - 1]) = c.blocks[i].previous_hash

\* Blockchain::valid_chain, of a chain with at least one block.
valid_chain(c) ==
    IF c.blocks[1].proof # 100
       \/ c.blocks[1].transactions # <<>>
       \/ c.blocks[1].previous_hash # One
    THEN FALSE
    ELSE \A i \in 2..Len(c.blocks) :
             /\ get_hash(c.blocks[i - 1]) = c.blocks[i].previous_hash
             /\ valid_proof(c.blocks[i - 1].proof, c.blocks[i].proof)

\* add_peer without the contains arm: a peer already in the set is reported as new.
add_peer_NoContainsCheck(ps, peer) ==
    IF basic_info = peer THEN [peers |-> ps, ret |-> FALSE]
    ELSE [peers |-> ps \cup {peer}, ret |-> TRUE]

\* add_peer without the comparison with basic_info.
add_peer_NoSelfCheck(ps, peer) ==
    IF peer \in ps THEN [peers |-> ps, ret |-> FALSE]
    ELSE [peers |-> ps \cup {peer}, ret |-> TRUE]

\* Node::add_peer: [peers, ret]
add_peer(ps, peer) ==
    IF basic_info = peer THEN [peers |-> ps, ret |-> FALSE]
    ELSE IF peer \in ps THEN [peers |-> ps, ret |-> FALSE]
    ELSE [peers |-> ps \cup {peer}, ret |-> TRUE]

\* The for loop of update_chain: add_new_transaction of every pending
\* transaction into the new chain, from position k.
RECURSIVE readmit(_, _, _)
readmit(new_chain, txs, k) ==
    IF k > Len(txs) THEN new_chain
    ELSE readmit(add_new_transaction(new_chain, txs[k]).chain, txs, k + 1)

\* update_chain without the comparison of the lengths.
update_chain_NoLengthCheck(c, new_blocks) ==
    IF new_blocks # <<>> /\ ~valid_chain(from_blocks(new_blocks))
    THEN [chain |-> c, ret |-> FALSE]
    ELSE [chain |-> readmit(from_blocks(new_blocks), c.current_transactions, 1),
          ret |-> TRUE]

\* update_chain that takes a chain only if it is longer by two blocks or more.
update_chain_NeedsTwoMore(c, new_blocks) ==
    IF Len(new_blocks) <= Len(c.blocks) + 1
    THEN [chain |-> c, ret |-> FALSE]
    ELSE IF ~valid_chain(from_blocks(new_blocks))
    THEN [chain |-> c, ret |-> FALSE]
    ELSE [chain |-> readmit(from_blocks(new_blocks), c.current_transactions, 1),
          ret |-> TRUE]

\* update_chain that takes a chain as long as its own.
update_chain_AcceptsEqualLength(c, new_blocks) ==
    IF Len(new_blocks) < Len(c.blocks)
    THEN [chain |-> c, ret |-> FALSE]
    ELSE IF ~valid_chain(from_blocks(new_blocks))
    THEN [chain |-> c, ret |-> FALSE]
    ELSE [chain |-> readmit(from_blocks(new_blocks), c.current_transactions, 1),
          ret |-> TRUE]

\* update_chain that does not add the pending transactions to the new chain.
update_chain_DropsPending(c, new_blocks) ==
    IF Len(new_blocks) <= Len(c.blocks)
    THEN [chain |-> c, ret |-> FALSE]
    ELSE IF ~valid_chain(from_blocks(new_blocks))
    THEN [chain |-> c, ret |-> FALSE]
    ELSE [chain |-> from_blocks(new_blocks), ret |-> TRUE]

\* Node::update_chain: [chain, ret]; when ret is true the caller has also
\* sent Broadcast(NewBlock(latest block)).
update_chain(c, new_blocks) ==
    IF Len(new_blocks) <= Len(c.blocks)
    THEN [chain |-> c, ret |-> FALSE]
    ELSE IF ~valid_chain(from_blocks(new_blocks))
    THEN [chain |-> c, ret |-> FALSE]
    ELSE [chain |-> readmit(from_blocks(new_blocks), c.current_transactions, 1),
          ret |-> TRUE]

\* ------------------------------------------------------------------ state

VARIABLES
    chain,      \* Node::chain: the Blockchain {current_transactions, blocks}
    peers,      \* Node::peers: HashSet<PeerInfo>
    events,     \* the Broadcast events waiting in the channel of Node::run
    uuid,       \* how many uuids Uuid::new_v4 has handed to this node
    incoming,   \* the event the loop has taken from the channel, or None
    resolve,    \* the position of resolve_conflicts: the peers of its snapshot still
                \* to come and its ret, and what has happened so far: the peers
                \* asked, the lengths of the valid chains they answered with (seen),
                \* how many update_chain returned true for (adopted), and how many
                \* calls ended in an error (failed)
    stream,     \* the reply read from the connection say_hello or resolve_conflict opened
    ret,        \* what the handler of the incoming event returned, or None
    before,     \* chain, peers, events and resolve as they were before the last step
    admitted,   \* the transactions for which add_new_transaction has returned true
    listener,   \* where the thread of handle_incoming_connections is
    net         \* several nodes that dial each other: for each node its chain, its
                \* peers, the channel of its Node::run (queue), the uuids it has
                \* drawn, the node its say_hello has dialed and waits for (dialed),
                \* the reply written to that connection (stream) and the ids its
                \* add_new_transaction has returned true for (admissions); and for
                \* the network the commands typed so far (issued) and, for each
                \* transaction a command created, the nodes its node reached through
                \* the registries at that moment (due)

vars == <<chain, peers, events, uuid, incoming, resolve, stream, ret, before, admitted,
          listener, net>>

\* No event taken, no reply read, nothing returned.
None == [kind |-> "None", event |-> "None", sender |-> basic_info, body |-> <<>>,
         val |-> FALSE]
IsNone(x) == x.kind = "None"
NotResolving ==
    [on |-> FALSE, peers |-> {}, ret |-> FALSE, seen |-> {}, asked |-> {}, adopted |-> 0,
     failed |-> 0]

\* The nodes of the network, the address each listens on and the PeerInfo each
\* sends as the sender of its requests.
GossipNodes == {"n0", "n1", "n2"}
Address == [n0 |-> 0, n1 |-> 1, n2 |-> 2]
Info(n) == [id |-> n, address |-> Address[n]]
Nobody == "nobody"

\* Node::new and Node::run up to the loop, for one node of the network.
Node_new ==
    [chain |-> Blockchain_new, peers |-> {}, queue |-> <<>>, uuid |-> 0,
     dialed |-> Nobody, stream |-> None, admissions |-> <<>>]
Network_new == [node |-> [n \in GossipNodes |-> Node_new], issued |-> 0, due |-> {}]

\* Node::run up to the loop: Blockchain::new(), HashSet::new(), channel()
Init ==
    /\ chain = Blockchain_new
    /\ peers = {}
    /\ events = <<>>
    /\ uuid = 0
    /\ incoming = None
    /\ resolve = NotResolving
    /\ stream = None
    /\ ret = None
    /\ before = [chain |-> Blockchain_new, peers |-> {}, events |-> <<>>,
                 resolve |-> NotResolving]
    /\ admitted = {}
    /\ listener = "accepting"
    /\ net = Network_new

Snapshot == [chain |-> chain, peers |-> peers, events |-> events, resolve |-> resolve]

\* What an operation returned: its name and its value.
Returned(op, val) == [kind |-> op, val |-> val]

\* What serve_request did: the operation, its value, and the responses it
\* wrote to the stream of the request.
Served(op, val, response) == [kind |-> op, val |-> val, response |-> response]

\* ------------------------------------------------------------------ inputs

\* The ids a peer can put in a message: its own and the uuids drawn so far.
KnownIds == PeerIds \cup {Uuid(n) : n \in 1..uuid}

\* The transaction lists of the blocks peers send: none or one transaction
\* in a block of a block list, and also one transaction twice in a NewBlock.
NoneOrOne(txs) == {<<>>} \cup {<<t>> : t \in txs}
TxLists(txs) == NoneOrOne(txs) \cup {<<t, t>> : t \in txs}

\* The proofs a peer sends for a block after one of proof last_proof: every
\* valid one in play, and one that is not valid.
ProofsAfter(last_proof) == {p \in Proofs : valid_proof(last_proof, p)} \cup {456}

\* The blocks a peer can send to follow block prev: the hash of prev or "1"
\* as previous_hash, and at most one of proof and previous_hash wrong.
BlocksAfter(prev, indexes, txs) ==
    {b \in [index : indexes, timestamp : Times, proof : ProofsAfter(prev.proof),
            transactions : txs, previous_hash : {get_hash(prev), One}] :
        b.proof # 456 \/ b.previous_hash # One}

\* The blocks of a NewBlock request: index one less than, equal to and one
\* more than the number of blocks.
BlockInputs ==
    BlocksAfter(last_block(chain),
                {Len(chain.blocks) - 1, Len(chain.blocks), Len(chain.blocks) + 1},
                TxLists(UserTxsOf(KnownIds)))

\* The block lists a peer answers HowAreYou with: the empty list, a genesis
\* block (the sentinel, or one with another proof), and every extension of
\* a valid list by a block a peer can send, up to MaxLen blocks. A list has
\* its defect, if any, in its first or its last block.
GenesisInputs == {get_genesis, [get_genesis EXCEPT !.proof = 456]}

RECURSIVE ChainsOfLen(_)
ChainsOfLen(n) ==
    IF n = 1 THEN {<<g>> : g \in GenesisInputs}
    ELSE UNION {{Append(c, b) :
                    b \in BlocksAfter(c[n - 1], {n - 1},
                                      NoneOrOne(UserTxsOf(PeerIds \cup Range(LocalIds))))} :
                c \in {v \in ChainsOfLen(n - 1) : valid_chain(from_blocks(v))}}

AllChains == {<<>>} \cup UNION {ChainsOfLen(n) : n \in 1..MaxLen}

ChainInputs == {c \in AllChains : BlockIds(c) \subseteq KnownIds}

\* Event::Request(stream, request), Event::Command(command) and
\* Event::Broadcast(request) as the loop takes them from the channel.
Request(kind, sender, body) ==
    [kind |-> kind, event |-> "Request", sender |-> sender, body |-> body]
Command(kind) ==
    [kind |-> kind, event |-> "Command", sender |-> basic_info, body |-> <<>>]
Broadcast(kind, body) ==
    [kind |-> kind, event |-> "Broadcast", sender |-> basic_info, body |-> body]

\* The requests the listener forwards (handle_incoming_connections) and the
\* commands the operator types (handle_input_commands).
RequestInputs ==
    {Request("Hello", p, <<>>) : p \in PeerUniverse}
    \cup {Request("HowAreYou", p, <<>>) : p \in PeerUniverse}
    \cup {Request("NewTransaction", p, t) : p \in PeerUniverse, t \in UserTxsOf(KnownIds)}
    \cup {Request("NewBlock", p, b) : p \in PeerUniverse, b \in BlockInputs}
    \cup {Request("NewPeer", p, q) : p \in PeerUniverse, q \in PeerUniverse}

CommandInputs ==
    {Command(k) : k \in {"NewTrans", "Display", "AddPeer", "DisplayPeers", "Resolve", "Mine"}}

\* What the other end of a connection the node opens can answer.
Failure(why) == [kind |-> why, body |-> <<>>]
Ack(p) == [kind |-> "Ack", body |-> p]
MyBlocks(blocks) == [kind |-> "MyBlocks", body |-> blocks]
Failures == {Failure("ConnectionFailed"), Failure("NoResponse")}

\* What parse_addr makes of the text of Command::AddPeer: an address, an error
\* when the text names no address, and a failed assert_eq!(addr.len(), 1) when
\* the host name resolves to several addresses ("localhost:8000" gives both
\* [::1]:8000 and 127.0.0.1:8000). The assertion runs in the event loop's thread.
ParseFailures == {Failure("InvalidAddress"), Failure("SeveralAddresses")}

\* ------------------------------------------------------------------ node

Room == Len(events) < MaxQueue

\* Node::run: event_receiver.recv() returns a request or a command ...
Recv(e) ==
    /\ IsNone(incoming)
    /\ e.event = "Request" => listener = "accepting"
    /\ Len(chain.blocks) < MaxLen \/ e.kind \notin {"NewBlock", "Mine"}
    /\ uuid < Len(LocalIds) \/ e.kind \notin {"NewTrans", "Mine"}
    /\ Room \/ e.kind \in {"Hello", "HowAreYou", "Display", "DisplayPeers"}
    /\ incoming' = e
    /\ UNCHANGED <<chain, peers, events, uuid, resolve, stream, ret>>
    /\ UNCHANGED admitted
    /\ UNCHANGED listener
    /\ before' = Snapshot
    /\ UNCHANGED net

\* ... or a Broadcast event one of the handlers has sent.
RecvBroadcast ==
    /\ IsNone(incoming)
    /\ events # <<>>
    /\ incoming' = Head(events)
    /\ events' = Tail(events)
    /\ UNCHANGED <<chain, peers, uuid, resolve, stream, ret>>
    /\ UNCHANGED admitted
    /\ UNCHANGED listener
    /\ before' = Snapshot
    /\ UNCHANGED net

Taken(event, kind) ==
    incoming.kind = kind /\ incoming.event = event /\ IsNone(ret) /\ ~resolve.on

\* serve_request of Request::Hello(p): add_peer, Response::Ack
ServeHello ==
    /\ Taken("Request", "Hello")
    /\ peers' = add_peer(peers, incoming.sender).peers
    /\ ret' = Served("Ack", basic_info, <<Ack(basic_info)>>)
    /\ UNCHANGED <<chain, events, uuid, incoming, resolve, stream>>
    /\ UNCHANGED admitted
    /\ UNCHANGED listener
    /\ before' = Snapshot
    /\ UNCHANGED net

\* serve_request of Request::HowAreYou(p): add_peer, Response::MyBlocks
ServeHowAreYou ==
    /\ Taken("Request", "HowAreYou")
    /\ peers' = add_peer(peers, incoming.sender).peers
    /\ ret' = Served("MyBlocks", chain.blocks, <<MyBlocks(chain.blocks)>>)
    /\ UNCHANGED <<chain, events, uuid, incoming, resolve, stream>>
    /\ UNCHANGED admitted
    /\ UNCHANGED listener
    /\ before' = Snapshot
    /\ UNCHANGED net

\* handle_incoming_transaction that broadcasts whatever add_new_transaction says.
ServeNewTransaction_AlwaysBroadcasts ==
    LET r == add_new_transaction(chain, incoming.body)
    IN  /\ Taken("Request", "NewTransaction")
        /\ peers' = add_peer(peers, incoming.sender).peers
        /\ chain' = r.chain
        /\ events' = Append(events, Broadcast("NewTransaction", incoming.body))
        /\ ret' = Served("add_new_transaction", r.ret, <<>>)
        /\ UNCHANGED <<uuid, incoming, resolve, stream>>
        /\ admitted' = IF r.ret THEN admitted \cup {incoming.body} ELSE admitted
        /\ UNCHANGED listener
        /\ before' = Snapshot
        /\ UNCHANGED net

\* handle_incoming_block that broadcasts its latest block whatever add_new_block says.
ServeNewBlock_AlwaysBroadcasts ==
    LET r == add_new_block(chain, incoming.body)
    IN  /\ Taken("Request", "NewBlock")
        /\ peers' = add_peer(peers, incoming.sender).peers
        /\ chain' = r.chain
        /\ events' = Append(events, Broadcast("NewBlock", last_block(r.chain)))
        /\ ret' = Served("add_new_block", r.ret, <<>>)
        /\ UNCHANGED <<uuid, incoming, resolve, stream>>
        /\ UNCHANGED admitted
        /\ UNCHANGED listener
        /\ before' = Snapshot
        /\ UNCHANGED net

\* serve_request of Request::NewTransaction(p, t): add_peer,
\* handle_incoming_transaction
ServeNewTransaction ==
    LET r == add_new_transaction(chain, incoming.body)
    IN  /\ Taken("Request", "NewTransaction")
        /\ peers' = add_peer(peers, incoming.sender).peers
        /\ chain' = r.chain
        /\ events' = IF r.ret
                     THEN Append(events, Broadcast("NewTransaction", incoming.body))
                     ELSE events
        /\ ret' = Served("add_new_transaction", r.ret, <<>>)
        /\ UNCHANGED <<uuid, incoming, resolve, stream>>
        /\ admitted' = IF r.ret THEN admitted \cup {incoming.body} ELSE admitted
        /\ UNCHANGED listener
        /\ before' = Snapshot
        /\ UNCHANGED net

\* serve_request of Request::NewBlock(p, b): add_peer, handle_incoming_block
ServeNewBlock ==
    LET r == add_new_block(chain, incoming.body)
    IN  /\ Taken("Request", "NewBlock")
        /\ peers' = add_peer(peers, incoming.sender).peers
        /\ chain' = r.chain
        /\ events' = IF r.ret
                     THEN Append(events, Broadcast("NewBlock", last_block(r.chain)))
                     ELSE events
        /\ ret' = Served("add_new_block", r.ret, <<>>)
        /\ UNCHANGED <<uuid, incoming, resolve, stream>>
        /\ UNCHANGED admitted
        /\ UNCHANGED listener
        /\ before' = Snapshot
        /\ UNCHANGED net

\* serve_request that dispatches NewPeer(p, q) first and adds the sender p afterwards.
ServeNewPeer_SenderAfterDispatch ==
    LET r == add_peer(peers, incoming.body)
    IN  /\ Taken("Request", "NewPeer")
        /\ peers' = add_peer(r.peers, incoming.sender).peers
        /\ events' = IF r.ret THEN Append(events, Broadcast("NewPeer", incoming.body))
                     ELSE events
        /\ ret' = Served("add_peer", r.ret, <<>>)
        /\ UNCHANGED <<chain, uuid, incoming, resolve, stream>>
        /\ UNCHANGED admitted
        /\ UNCHANGED listener
        /\ before' = Snapshot
        /\ UNCHANGED net

\* serve_request of Request::NewPeer(p, q): add_peer, handle_incoming_peer
ServeNewPeer ==
    LET r == add_peer(add_peer(peers, incoming.sender).peers, incoming.body)
    IN  /\ Taken("Request", "NewPeer")
        /\ peers' = r.peers
        /\ events' = IF r.ret THEN Append(events, Broadcast("NewPeer", incoming.body))
                     ELSE events
        /\ ret' = Served("add_peer", r.ret, <<>>)
        /\ UNCHANGED <<chain, uuid, incoming, resolve, stream>>
        /\ UNCHANGED admitted
        /\ UNCHANGED listener
        /\ before' = Snapshot
        /\ UNCHANGED net

\* Event::Broadcast(request): broadcast_request takes a snapshot of the peers
\* and goes through it in the order of the HashSet. For each peer: the request
\* is sent; or connect fails, which is logged; or connect succeeds and
\* try_clone, to_writer or flush fails, which returns the error with ?.
Delivery == {"Sent", "ConnectionFailed", "SendFailed"}
Orders(ps) == {o \in [1..Cardinality(ps) -> ps] : Range(o) = ps}

\* The position in the order at which broadcast_request returns.
Stops(order, outcome) ==
    LET failed == {k \in DOMAIN order : outcome[order[k]] = "SendFailed"}
    IN  IF failed = {} THEN Len(order)
        ELSE CHOOSE k \in failed : \A j \in failed : k <= j

\* The returned value records the peers a connection was attempted to;
\* nothing of the node changes.
BroadcastRequest(order, outcome) ==
    /\ incoming.event = "Broadcast" /\ IsNone(ret)
    /\ ret' = Returned("broadcast_request", {order[k] : k \in 1..Stops(order, outcome)})
    /\ UNCHANGED <<chain, peers, events, uuid, incoming, resolve, stream>>
    /\ UNCHANGED admitted
    /\ UNCHANGED listener
    /\ before' = Snapshot
    /\ UNCHANGED net

\* Command::NewTrans: create_and_add_new_transaction
CommandNewTrans ==
    LET transaction == Transaction(Uuid(uuid + 1), "a", "b", 1)
        r == add_new_transaction(chain, transaction)
    IN  /\ Taken("Command", "NewTrans")
        /\ uuid' = uuid + 1
        /\ chain' = r.chain
        /\ events' = IF r.ret
                     THEN Append(events, Broadcast("NewTransaction", transaction))
                     ELSE events
        /\ ret' = Returned("add_new_transaction", r.ret)
        /\ UNCHANGED <<peers, incoming, resolve, stream>>
        /\ admitted' = IF r.ret THEN admitted \cup {transaction} ELSE admitted
        /\ UNCHANGED listener
        /\ before' = Snapshot
        /\ UNCHANGED net

\* mine that also broadcasts the reward transaction on its own.
CommandMine_BroadcastsReward ==
    /\ Taken("Command", "Mine")
    /\ \E now \in Times :
        LET proof == proof_of_work(last_block(chain).proof)
            last_hash == get_hash(last_block(chain))
            bonus_trans == Transaction(Uuid(uuid + 1), "0", basic_info.id, 1)
            added == add_new_transaction(chain, bonus_trans)
            r == create_new_block(added.chain, proof, last_hash, now)
        IN  /\ chain' = r.chain
            /\ admitted' = IF added.ret THEN admitted \cup {bonus_trans} ELSE admitted
            /\ events' = events \o <<Broadcast("NewTransaction", bonus_trans),
                                     Broadcast("NewBlock", last_block(r.chain))>>
            /\ ret' = Returned("mine", r.ret)
    /\ uuid' = uuid + 1
    /\ UNCHANGED <<peers, incoming, resolve, stream>>
    /\ UNCHANGED listener
    /\ before' = Snapshot
    /\ UNCHANGED net

\* mine that creates the block first and admits the reward afterwards.
CommandMine_RewardAfterBlock ==
    /\ Taken("Command", "Mine")
    /\ \E now \in Times :
        LET proof == proof_of_work(last_block(chain).proof)
            last_hash == get_hash(last_block(chain))
            bonus_trans == Transaction(Uuid(uuid + 1), "0", basic_info.id, 1)
            r == create_new_block(chain, proof, last_hash, now)
            added == add_new_transaction(r.chain, bonus_trans)
        IN  /\ chain' = added.chain
            /\ admitted' = IF added.ret THEN admitted \cup {bonus_trans} ELSE admitted
            /\ events' = Append(events, Broadcast("NewBlock", last_block(r.chain)))
            /\ ret' = Returned("mine", r.ret)
    /\ uuid' = uuid + 1
    /\ UNCHANGED <<peers, incoming, resolve, stream>>
    /\ UNCHANGED listener
    /\ before' = Snapshot
    /\ UNCHANGED net

\* Command::Mine: Node::mine
CommandMine ==
    /\ Taken("Command", "Mine")
    /\ \E now \in Times :
        LET proof == proof_of_work(last_block(chain).proof)
            last_hash == get_hash(last_block(chain))
            bonus_trans == Transaction(Uuid(uuid + 1), "0", basic_info.id, 1)
            added == add_new_transaction(chain, bonus_trans)
            r == create_new_block(added.chain, proof, last_hash, now)
        IN  /\ chain' = r.chain
            /\ admitted' = IF added.ret THEN admitted \cup {bonus_trans} ELSE admitted
            /\ events' = Append(events, Broadcast("NewBlock", last_block(r.chain)))
            /\ ret' = Returned("mine", r.ret)
    /\ uuid' = uuid + 1
    /\ UNCHANGED <<peers, incoming, resolve, stream>>
    /\ UNCHANGED listener
    /\ before' = Snapshot
    /\ UNCHANGED net

\* Command::Display and Command::DisplayPeers: print, change nothing.
CommandDisplay ==
    /\ Taken("Command", "Display")
    /\ ret' = Returned("display", chain.blocks)
    /\ UNCHANGED <<chain, peers, events, uuid, incoming, resolve, stream>>
    /\ UNCHANGED admitted
    /\ UNCHANGED listener
    /\ before' = Snapshot
    /\ UNCHANGED net

CommandDisplayPeers ==
    /\ Taken("Command", "DisplayPeers")
    /\ ret' = Returned("display_peers", peers)
    /\ UNCHANGED <<chain, peers, events, uuid, incoming, resolve, stream>>
    /\ UNCHANGED admitted
    /\ UNCHANGED listener
    /\ before' = Snapshot
    /\ UNCHANGED net

\* Command::AddPeer: greet_and_add_peer and say_hello, given the reply.
CommandAddPeer(reply) ==
    /\ Taken("Command", "AddPeer")
    /\ IF reply.kind = "Ack"
       THEN /\ events' = Append(events, Broadcast("NewPeer", reply.body))
            /\ peers' = add_peer(peers, reply.body).peers
            /\ ret' = Returned("greet_and_add_peer", add_peer(peers, reply.body).ret)
       ELSE /\ ret' = IF reply.kind = "SeveralAddresses"
                      THEN Returned("panic", FALSE)
                      ELSE Returned("greet_and_add_peer", FALSE)
            /\ UNCHANGED <<events, peers>>
    /\ stream' = reply
    /\ UNCHANGED <<chain, uuid, incoming, resolve>>
    /\ UNCHANGED admitted
    /\ UNCHANGED listener
    /\ before' = Snapshot
    /\ UNCHANGED net

\* Command::Resolve: resolve_conflicts takes its snapshot of the peers ...
ResolveConflicts ==
    /\ Taken("Command", "Resolve")
    /\ resolve' = [NotResolving EXCEPT !.on = TRUE, !.peers = peers]
    /\ UNCHANGED <<chain, peers, events, uuid, incoming, stream, ret>>
    /\ UNCHANGED admitted
    /\ UNCHANGED listener
    /\ before' = Snapshot
    /\ UNCHANGED net

\* The length of the chain a peer has answered with, if it is a valid chain.
Observed(reply) ==
    IF reply.kind = "MyBlocks" /\ reply.body # <<>> /\ valid_chain(from_blocks(reply.body))
    THEN {Len(reply.body)}
    ELSE {}

\* resolve_conflicts that gives up the rest of its snapshot at the first
\* peer that does not answer with its blocks.
ResolveConnect_StopsAtFailure(peer, reply) ==
    /\ resolve.on
    /\ IsNone(stream) \/ ~IsNone(ret)
    /\ peer \in resolve.peers
    /\ reply.kind # "MyBlocks" \/ Room
    /\ stream' = reply
    /\ ret' = None
    /\ resolve' = [resolve EXCEPT !.peers = IF reply.kind = "MyBlocks" THEN @ \ {peer} ELSE {},
                                  !.seen = @ \cup Observed(reply),
                                  !.asked = @ \cup {peer}]
    /\ UNCHANGED <<chain, peers, events, uuid, incoming>>
    /\ UNCHANGED admitted
    /\ UNCHANGED listener
    /\ before' = Snapshot
    /\ UNCHANGED net

\* ... connects to one more peer of it, sends HowAreYou and reads the reply ...
ResolveConnect(peer, reply) ==
    /\ resolve.on
    /\ IsNone(stream) \/ ~IsNone(ret)
    /\ peer \in resolve.peers
    /\ reply.kind # "MyBlocks" \/ Room
    /\ stream' = reply
    /\ ret' = None
    /\ resolve' = [resolve EXCEPT !.peers = @ \ {peer}, !.seen = @ \cup Observed(reply),
                                  !.asked = @ \cup {peer}]
    /\ UNCHANGED <<chain, peers, events, uuid, incoming>>
    /\ UNCHANGED admitted
    /\ UNCHANGED listener
    /\ before' = Snapshot
    /\ UNCHANGED net

\* resolve_conflict that takes a reply that is not MyBlocks for an adoption.
ResolveConflict_CountsErrorAsAdopted ==
    /\ resolve.on
    /\ ~IsNone(stream) /\ IsNone(ret)
    /\ IF stream.kind = "MyBlocks"
       THEN LET r == update_chain(chain, stream.body)
            IN  /\ chain' = r.chain
                /\ events' = IF r.ret
                             THEN Append(events, Broadcast("NewBlock", last_block(r.chain)))
                             ELSE events
                /\ resolve' = [resolve EXCEPT !.ret = @ \/ r.ret,
                                              !.adopted = IF r.ret THEN @ + 1 ELSE @]
                /\ ret' = Returned("update_chain", r.ret)
       ELSE /\ ret' = Returned("resolve_conflict", TRUE)
            /\ resolve' = [resolve EXCEPT !.ret = TRUE, !.adopted = @ + 1]
            /\ UNCHANGED <<chain, events>>
    /\ UNCHANGED <<peers, uuid, incoming, stream>>
    /\ UNCHANGED admitted
    /\ UNCHANGED listener
    /\ before' = Snapshot
    /\ UNCHANGED net

\* ... resolve_conflict: update_chain of the blocks of a MyBlocks reply,
\* ret = ret || flag ...
ResolveConflict ==
    /\ resolve.on
    /\ ~IsNone(stream) /\ IsNone(ret)
    /\ IF stream.kind = "MyBlocks"
       THEN LET r == update_chain(chain, stream.body)
            IN  /\ chain' = r.chain
                /\ events' = IF r.ret
                             THEN Append(events, Broadcast("NewBlock", last_block(r.chain)))
                             ELSE events
                /\ resolve' = [resolve EXCEPT !.ret = @ \/ r.ret,
                                              !.adopted = IF r.ret THEN @ + 1 ELSE @]
                /\ ret' = Returned("update_chain", r.ret)
       ELSE /\ ret' = Returned("resolve_conflict", FALSE)
            /\ resolve' = [resolve EXCEPT !.failed = @ + 1]
            /\ UNCHANGED <<chain, events>>
    /\ UNCHANGED <<peers, uuid, incoming, stream>>
    /\ UNCHANGED admitted
    /\ UNCHANGED listener
    /\ before' = Snapshot
    /\ UNCHANGED net

\* ... and returns ret at the end of the snapshot.
ResolveReturn ==
    /\ resolve.on
    /\ IsNone(stream) \/ ~IsNone(ret)
    /\ resolve.peers = {}
    /\ resolve' = NotResolving
    /\ stream' = None
    /\ ret' = Returned("resolve_conflicts", resolve.ret)
    /\ UNCHANGED <<chain, peers, events, uuid, incoming>>
    /\ UNCHANGED admitted
    /\ UNCHANGED listener
    /\ before' = Snapshot
    /\ UNCHANGED net

\* Node::run: the handler has returned, the loop goes back to recv().
Loop ==
    /\ ~IsNone(incoming)
    /\ ~IsNone(ret)
    /\ ret.kind # "panic"
    /\ ~resolve.on
    /\ incoming' = None
    /\ ret' = None
    /\ stream' = None
    /\ UNCHANGED <<chain, peers, events, uuid, resolve>>
    /\ UNCHANGED admitted
    /\ UNCHANGED listener
    /\ before' = Snapshot
    /\ UNCHANGED net

Next ==
    \/ IsNone(incoming) /\ \E e \in RequestInputs \cup CommandInputs : Recv(e)
    \/ RecvBroadcast
    \/ ServeHello
    \/ ServeHowAreYou
    \/ ServeNewTransaction
    \/ ServeNewBlock
    \/ ServeNewPeer
    \/ \E order \in Orders(peers) : \E outcome \in [peers -> Delivery] :
           BroadcastRequest(order, outcome)
    \/ CommandNewTrans
    \/ CommandMine
    \/ CommandDisplay
    \/ CommandDisplayPeers
    \/ \E reply \in Failures \cup ParseFailures \cup {MyBlocks(<<>>)}
                    \cup {Ack(p) : p \in PeerUniverse} : CommandAddPeer(reply)
    \/ ResolveConflicts
    \/ resolve.on /\ (IsNone(stream) \/ ~IsNone(ret))
       /\ \E reply \in Failures \cup {Ack(basic_info)} \cup {MyBlocks(c) : c \in ChainInputs} :
              \E peer \in resolve.peers : ResolveConnect(peer, reply)
    \/ ResolveConflict
    \/ ResolveReturn
    \/ Loop

Spec == Init /\ [][Next]_vars

\* ------------------------------------------- the node among several peers

\* The node with the peers that have said Hello to it, driven by its
\* operator: the commands Mine and Resolve, the broadcasts they cause, and
\* the answers of the peers to HowAreYou.
ResolvePeers == {[id |-> "n1", address |-> 1], [id |-> "n2", address |-> 2]}

ResolveInputs ==
    {Request("Hello", p, <<>>) : p \in ResolvePeers}
    \cup {Command(k) : k \in {"Resolve", "Mine"}}

\* What a peer answers HowAreYou with: no answer, or the block list of a
\* chain of its own, whose transactions are of its own making.
ResolveReplies ==
    Failures \cup {MyBlocks(c) : c \in {v \in AllChains : BlockIds(v) \subseteq PeerIds}}

ResolveNext ==
    \/ IsNone(incoming) /\ \E e \in ResolveInputs : Recv(e)
    \/ RecvBroadcast
    \/ ServeHello
    \/ \E order \in Orders(peers) : \E outcome \in [peers -> Delivery] :
           BroadcastRequest(order, outcome)
    \/ CommandMine
    \/ ResolveConflicts
    \/ resolve.on /\ (IsNone(stream) \/ ~IsNone(ret))
       /\ \E reply \in ResolveReplies :
              \E peer \in resolve.peers : ResolveConnect(peer, reply)
    \/ ResolveConflict
    \/ ResolveReturn
    \/ Loop

ResolveSpec == Init /\ [][ResolveNext]_vars

\* ------------------------------------------- the listener and its connections
\* handle_incoming_connections reads one request from each connection it accepts
\* and sends it to the loop (Recv of a Request). The connections that carry no
\* well-formed request end its loop over listener.incoming(). The listener
\* runs in its own thread, next to whatever the event loop is doing, so it
\* leaves the record of the loop's last step (before) alone:

\* No request could be deserialized: map_err(..)? returns the error from
\* handle_incoming_connections, and the thread ends.
ConnectionMalformed ==
    /\ listener = "accepting"
    /\ listener' = "returned"
    /\ UNCHANGED <<chain, peers, events, uuid, incoming, resolve, stream, ret, admitted>>
    /\ UNCHANGED before
    /\ UNCHANGED net

\* The peer closed the connection before sending anything: the iterator of the
\* deserializer is empty, request stays None and request.unwrap() panics.
ConnectionEmpty ==
    /\ listener = "accepting"
    /\ listener' = "panicked"
    /\ UNCHANGED <<chain, peers, events, uuid, incoming, resolve, stream, ret, admitted>>
    /\ UNCHANGED before
    /\ UNCHANGED net

\* listener.incoming() yields Err(e): logged, and the loop goes on.
ConnectionFailed ==
    /\ listener = "accepting"
    /\ UNCHANGED <<chain, peers, events, uuid, incoming, resolve, stream, ret, admitted>>
    /\ UNCHANGED listener
    /\ UNCHANGED before
    /\ UNCHANGED net

ListenerNext ==
    \/ IsNone(incoming) /\ \E e \in RequestInputs : Recv(e)
    \/ ConnectionMalformed
    \/ ConnectionEmpty
    \/ ConnectionFailed
    \/ RecvBroadcast
    \/ ServeHello
    \/ ServeHowAreYou
    \/ ServeNewTransaction
    \/ ServeNewBlock
    \/ ServeNewPeer
    \/ \E order \in Orders(peers) : \E outcome \in [peers -> Delivery] :
           BroadcastRequest(order, outcome)
    \/ Loop

ListenerSpec == Init /\ [][ListenerNext]_vars

\* ------------------------------------------------- the node and its operator
\* The node driven by its operator alone: the operator enters transactions,
\* mines, greets a peer and resolves, and the peer answers with any reply, of
\* the right variant or not.
OperatorInputs == {Command(k) : k \in {"NewTrans", "Mine", "AddPeer", "Resolve"}}

\* Block lists of two blocks numbered otherwise than by position: the second
\* block with index 2, or the first with index 1. The hashes are those of the
\* blocks as they are, so valid_chain, which reads no index, accepts the
\* lists whose hashes and proofs fit.
Misnumbered ==
    LET first == [get_genesis EXCEPT !.index = 1]
    IN  {<<get_genesis, b>> : b \in BlocksAfter(get_genesis, {2}, {<<>>})}
        \cup {<<first, b>> : b \in BlocksAfter(first, {1}, {<<>>})}

OperatorReplies ==
    ResolveReplies \cup {Ack(p) : p \in PeerUniverse} \cup {MyBlocks(c) : c \in Misnumbered}

OperatorNext ==
    \/ IsNone(incoming) /\ \E e \in OperatorInputs : Recv(e)
    \/ RecvBroadcast
    \/ \E order \in Orders(peers) : \E outcome \in [peers -> Delivery] :
           BroadcastRequest(order, outcome)
    \/ CommandNewTrans
    \/ CommandMine
    \/ \E reply \in OperatorReplies \cup ParseFailures : CommandAddPeer(reply)
    \/ ResolveConflicts
    \/ resolve.on /\ (IsNone(stream) \/ ~IsNone(ret))
       /\ \E reply \in OperatorReplies :
              \E peer \in resolve.peers : ResolveConnect(peer, reply)
    \/ ResolveConflict
    \/ ResolveReturn
    \/ Loop

OperatorSpec == Init /\ [][OperatorNext]_vars

\* ---------------------------------------------------- the ledger by itself

\* The Blockchain used directly, as the repository's tests use it: calls of
\* add_new_transaction, create_new_block and add_new_block with any argument.
Call(kind, body) == [kind |-> kind, event |-> "Call", sender |-> basic_info, body |-> body]

\* The transactions of a call: a user's transfer under every id, and a second
\* transaction that shares the id of one of them.
LedgerTxs ==
    UserTxsOf(PeerIds \cup Range(LocalIds))
    \cup {Transaction(id, "0", basic_info.id, 1) : id \in PeerIds}

\* The transaction lists of a block of a call: up to two transactions.
UpToTwo(txs) == NoneOrOne(txs) \cup {<<t, u>> : t \in txs, u \in txs}

LedgerInputs ==
    {Call("add_new_transaction", t) : t \in LedgerTxs}
    \cup {Call("create_new_block", <<proof, previous_hash, now>>) :
            proof \in ProofsAfter(last_block(chain).proof),
            previous_hash \in {get_hash(last_block(chain)), One},
            now \in Times}
    \cup {Call("add_new_block", b) :
            b \in BlocksAfter(last_block(chain),
                              {Len(chain.blocks) - 1, Len(chain.blocks), Len(chain.blocks) + 1},
                              UpToTwo(UserTxsOf(PeerIds \cup {Uuid(1)})))}

LedgerCall(e) ==
    /\ IsNone(incoming)
    /\ Len(chain.blocks) < MaxLen \/ e.kind = "add_new_transaction"
    /\ incoming' = e
    /\ UNCHANGED <<chain, peers, events, uuid, resolve, stream, ret>>
    /\ UNCHANGED admitted
    /\ UNCHANGED listener
    /\ before' = Snapshot
    /\ UNCHANGED net

Called(kind) == incoming.kind = kind /\ incoming.event = "Call" /\ IsNone(ret)

AddNewTransaction ==
    LET r == add_new_transaction(chain, incoming.body)
    IN  /\ Called("add_new_transaction")
        /\ chain' = r.chain
        /\ ret' = Returned("add_new_transaction", r.ret)
        /\ UNCHANGED <<peers, events, uuid, incoming, resolve, stream>>
        /\ admitted' = IF r.ret THEN admitted \cup {incoming.body} ELSE admitted
        /\ UNCHANGED listener
        /\ before' = Snapshot
        /\ UNCHANGED net

CreateNewBlock ==
    LET r == create_new_block(chain, incoming.body[1], incoming.body[2], incoming.body[3])
    IN  /\ Called("create_new_block")
        /\ chain' = r.chain
        /\ ret' = Returned("create_new_block", r.ret)
        /\ UNCHANGED <<peers, events, uuid, incoming, resolve, stream>>
        /\ UNCHANGED admitted
        /\ UNCHANGED listener
        /\ before' = Snapshot
        /\ UNCHANGED net

AddNewBlock ==
    LET r == add_new_block(chain, incoming.body)
    IN  /\ Called("add_new_block")
        /\ chain' = r.chain
        /\ ret' = Returned("add_new_block", r.ret)
        /\ UNCHANGED <<peers, events, uuid, incoming, resolve, stream>>
        /\ UNCHANGED admitted
        /\ UNCHANGED listener
        /\ before' = Snapshot
        /\ UNCHANGED net

\* The call has returned; the caller makes its next call.
LedgerReturn ==
    /\ incoming.event = "Call"
    /\ ~IsNone(ret)
    /\ incoming' = None
    /\ ret' = None
    /\ UNCHANGED <<chain, peers, events, uuid, resolve, stream>>
    /\ UNCHANGED admitted
    /\ UNCHANGED listener
    /\ before' = Snapshot
    /\ UNCHANGED net

LedgerNext ==
    \/ IsNone(incoming) /\ \E e \in LedgerInputs : LedgerCall(e)
    \/ AddNewTransaction
    \/ CreateNewBlock
    \/ AddNewBlock
    \/ LedgerReturn

LedgerSpec == Init /\ [][LedgerNext]_vars

\* -------------------------------------------------- the registry by itself
\* Node::add_peer called directly, with this node's own PeerInfo, two peers,
\* and PeerInfo values that share an id or an address with another one.
RegistryPeers ==
    PeerUniverse
    \cup {[id |-> "n2", address |-> 2], [id |-> "n0", address |-> 1],
          [id |-> "n1", address |-> 2]}

RegistryInputs == {Call("add_peer", p) : p \in RegistryPeers}

AddPeer ==
    LET r == add_peer(peers, incoming.body)
    IN  /\ Called("add_peer")
        /\ peers' = r.peers
        /\ ret' = Returned("add_peer", r.ret)
        /\ UNCHANGED <<chain, events, uuid, incoming, resolve, stream, admitted>>
        /\ UNCHANGED listener
        /\ before' = Snapshot
        /\ UNCHANGED net

RegistryNext ==
    \/ \E e \in RegistryInputs : LedgerCall(e)
    \/ AddPeer
    \/ LedgerReturn

RegistrySpec == Init /\ [][RegistryNext]_vars

\* ------------------------------------------- the ledger as its tests use it

\* tests::test_valid_chain: the test builds a chain with add_new_transaction
\* and create_new_block, writes to the fields of a block of the chain, pops a
\* block, and asks Blockchain::valid_chain after each of these steps. ret is
\* what valid_chain answered for the chain the step has left.

\* "2".to_owned(), a previous_hash that is the hash of no block.
Two == <<"2">>

\* Transaction::new("good", "evil", 100), the transaction the test pushes.
Evil == Transaction("p1", "good", "evil", 100)

\* The values a write can give to field of block b: another proof, another
\* previous_hash, a transaction more or less, another index or timestamp.
TamperValues(b, field) ==
    CASE field = "proof" -> (Proofs \cup {101, 123}) \ {b.proof}
      [] field = "previous_hash" -> {One, Two} \ {b.previous_hash}
      [] field = "transactions" ->
            {Append(b.transactions, Evil)}
            \cup {SubSeq(b.transactions, 1, Len(b.transactions) - 1) :
                    x \in {y \in {0} : b.transactions # <<>>}}
      [] field = "index" -> {b.index + 1}
      [] field = "timestamp" -> {b.timestamp + 1}

TamperFields == {"proof", "previous_hash", "transactions", "index", "timestamp"}

\* chain.blocks[i].field = value
tamper(c, i, field, value) ==
    [c EXCEPT !.blocks[i] =
        CASE field = "proof" -> [@ EXCEPT !.proof = value]
          [] field = "previous_hash" -> [@ EXCEPT !.previous_hash = value]
          [] field = "transactions" -> [@ EXCEPT !.transactions = value]
          [] field = "index" -> [@ EXCEPT !.index = value]
          [] field = "timestamp" -> [@ EXCEPT !.timestamp = value]]

\* A step of the test has been made and valid_chain asked.
Asked(kind, body, c) ==
    /\ incoming' = Call(kind, body)
    /\ ret' = Returned("valid_chain", valid_chain(c))

\* assert!(Blockchain::valid_chain(&chain))
TestValidChain ==
    /\ IsNone(incoming)
    /\ Asked("valid_chain", <<>>, chain)
    /\ UNCHANGED <<chain, peers, events, uuid, resolve, stream>>
    /\ UNCHANGED admitted
    /\ UNCHANGED listener
    /\ before' = Snapshot
    /\ UNCHANGED net

\* chain.add_new_transaction(&Transaction::new(..))
TestAddNewTransaction ==
    LET transaction == Transaction(Uuid(uuid + 1), "a", "b", 1)
        r == add_new_transaction(chain, transaction)
    IN  /\ IsNone(incoming)
        /\ uuid < Len(LocalIds)
        /\ uuid' = uuid + 1
        /\ chain' = r.chain
        /\ Asked("add_new_transaction", <<>>, r.chain)
        /\ UNCHANGED <<peers, events, resolve, stream>>
        /\ admitted' = IF r.ret THEN admitted \cup {transaction} ELSE admitted
        /\ UNCHANGED listener
        /\ before' = Snapshot
        /\ UNCHANGED net

\* chain.create_new_block(chain.run_pow(), chain.last_block().get_hash()), and
\* chain.create_new_block(456, ..): with the proof of work or another proof,
\* with the hash of the last block or another string.
TestCreateNewBlock(proof, previous_hash, now) ==
    LET r == create_new_block(chain, proof, previous_hash, now)
    IN  /\ IsNone(incoming)
        /\ Len(chain.blocks) < MaxLen
        /\ chain' = r.chain
        /\ Asked("create_new_block", <<proof, previous_hash, now>>, r.chain)
        /\ UNCHANGED <<peers, events, uuid, resolve, stream>>
        /\ UNCHANGED admitted
        /\ UNCHANGED listener
        /\ before' = Snapshot
        /\ UNCHANGED net

\* chain.blocks.pop()
TestPop ==
    /\ IsNone(incoming)
    /\ Len(chain.blocks) > 1
    /\ chain' = [chain EXCEPT !.blocks = SubSeq(@, 1, Len(@) - 1)]
    /\ Asked("pop", <<>>, chain')
    /\ UNCHANGED <<peers, events, uuid, resolve, stream>>
    /\ UNCHANGED admitted
    /\ UNCHANGED listener
    /\ before' = Snapshot
    /\ UNCHANGED net

\* chain.blocks[i].field = value, of a chain that valid_chain accepts
TestTamper(i, field, value) ==
    /\ IsNone(incoming)
    /\ valid_chain(chain)
    /\ chain' = tamper(chain, i, field, value)
    /\ Asked("tamper", [block |-> i, field |-> field, value |-> value], chain')
    /\ UNCHANGED <<peers, events, uuid, resolve, stream>>
    /\ UNCHANGED admitted
    /\ UNCHANGED listener
    /\ before' = Snapshot
    /\ UNCHANGED net

\* The test goes on: after a write it first puts the old value back.
TestContinue ==
    /\ incoming.event = "Call"
    /\ ~IsNone(ret)
    /\ chain' = IF incoming.kind = "tamper" THEN before.chain ELSE chain
    /\ incoming' = None
    /\ ret' = None
    /\ UNCHANGED <<peers, events, uuid, resolve, stream>>
    /\ UNCHANGED admitted
    /\ UNCHANGED listener
    /\ before' = Snapshot
    /\ UNCHANGED net

TestNext ==
    \/ TestValidChain
    \/ TestAddNewTransaction
    \/ IsNone(incoming) /\ Len(chain.blocks) < MaxLen
       /\ \E proof \in {proof_of_work(last_block(chain).proof), 456},
             previous_hash \in {get_hash(last_block(chain)), One},
             now \in Times : TestCreateNewBlock(proof, previous_hash, now)
    \/ TestPop
    \/ IsNone(incoming)
       /\ \E i \in 1..Len(chain.blocks), field \in TamperFields :
             \E value \in TamperValues(chain.blocks[i], field) : TestTamper(i, field, value)
    \/ TestContinue

TestSpec == Init /\ [][TestNext]_vars

\* ------------------------------------------------- several nodes that gossip
\* Every node runs Node::run. Its channel (queue) holds the commands of its
\* operator, the requests its listener forwards and its own Broadcast events,
\* in the order they were sent. Connections succeed and every request that is
\* written arrives: a node that connects to an address reaches the listener of
\* the node at that address, which forwards the request into that node's channel.
MaxCommands == 3
single ==
    <<chain, peers, events, uuid, incoming, resolve, stream, ret, before, admitted,
      listener>>

\* Node::add_peer of the node whose basic_info is info: [peers, ret]
add_peer_of(info, ps, peer) ==
    IF info = peer THEN [peers |-> ps, ret |-> FALSE]
    ELSE IF peer \in ps THEN [peers |-> ps, ret |-> FALSE]
    ELSE [peers |-> ps \cup {peer}, ret |-> TRUE]

\* The events of node n: a command of its operator, its own broadcast.
CommandOf(n, kind, body) ==
    [kind |-> kind, event |-> "Command", sender |-> Info(n), body |-> body]
BroadcastOf(n, kind, body) ==
    [kind |-> kind, event |-> "Broadcast", sender |-> Info(n), body |-> body]
CommandsOf(n) ==
    {CommandOf(n, "NewTrans", <<>>), CommandOf(n, "Mine", <<>>)}
    \cup {CommandOf(n, "AddPeer", m) : m \in GossipNodes}

\* The nodes TcpStream::connect reaches for the peers ps, and the nodes after
\* the listeners of the nodes in targets have forwarded the request e.
Listening(ps) == {m \in GossipNodes : \E p \in ps : p.address = Address[m]}
Forward(nodes, targets, e) ==
    [m \in GossipNodes |->
        IF m \in targets THEN [nodes[m] EXCEPT !.queue = Append(@, e)] ELSE nodes[m]]

\* The nodes whose PeerInfo is in the registry of a node of ns, with ns; and
\* the nodes reached from n by following the registries.
Dials(ns) == ns \cup {m \in GossipNodes : \E k \in ns : Info(m) \in net.node[k].peers}
Reach(n) == Dials(Dials(Dials({n})))

\* handle_input_commands of node n sends a command into the channel.
Issue(n, c) ==
    /\ net.issued < MaxCommands
    /\ net' = [net EXCEPT !.issued = @ + 1, !.node[n].queue = Append(@, c)]
    /\ UNCHANGED single

\* event_receiver.recv() of node n returns an event of this kind: the loop is
\* not inside a call that waits for a reply.
NetTaken(n, event, kind) ==
    /\ net.node[n].dialed = Nobody
    /\ net.node[n].queue # <<>>
    /\ Head(net.node[n].queue).event = event
    /\ Head(net.node[n].queue).kind = kind

\* Command::NewTrans on node n: create_and_add_new_transaction
NetCommandNewTrans(n) ==
    LET me == net.node[n]
        transaction == Transaction(<<n, me.uuid + 1>>, "a", "b", 1)
        r == add_new_transaction(me.chain, transaction)
    IN  /\ NetTaken(n, "Command", "NewTrans")
        /\ net' = [net EXCEPT
                     !.node[n] =
                         [me EXCEPT
                            !.chain = r.chain,
                            !.uuid = @ + 1,
                            !.admissions = IF r.ret THEN Append(@, transaction.id) ELSE @,
                            !.queue = IF r.ret
                                      THEN Append(Tail(@),
                                                  BroadcastOf(n, "NewTransaction", transaction))
                                      ELSE Tail(@)],
                     !.due = IF r.ret
                             THEN @ \cup {<<transaction.id, m>> : m \in Reach(n)}
                             ELSE @]
        /\ UNCHANGED single

\* Command::Mine on node n: mine
NetCommandMine(n) ==
    /\ NetTaken(n, "Command", "Mine")
    /\ \E now \in Times :
        LET me == net.node[n]
            proof == proof_of_work(last_block(me.chain).proof)
            last_hash == get_hash(last_block(me.chain))
            bonus_trans == Transaction(<<n, me.uuid + 1>>, "0", n, 1)
            added == add_new_transaction(me.chain, bonus_trans)
            r == create_new_block(added.chain, proof, last_hash, now)
        IN  net' = [net EXCEPT
                      !.node[n] =
                          [me EXCEPT
                             !.chain = r.chain,
                             !.uuid = @ + 1,
                             !.admissions = IF added.ret THEN Append(@, bonus_trans.id) ELSE @,
                             !.queue = Append(Tail(@),
                                              BroadcastOf(n, "NewBlock", last_block(r.chain)))]]
    /\ UNCHANGED single

\* Command::AddPeer on node n with the address of node m: greet_and_add_peer
\* connects, say_hello writes Request::Hello and starts to read the response.
NetCommandAddPeer(n) ==
    /\ NetTaken(n, "Command", "AddPeer")
    /\ LET m == Head(net.node[n].queue).body
           dialing == [net.node EXCEPT ![n].queue = Tail(@), ![n].dialed = m]
       IN  net' = [net EXCEPT !.node = Forward(dialing, {m}, Request("Hello", Info(n), <<>>))]
    /\ UNCHANGED single

\* say_hello of node n reads the response: async_broadcast_peer, add_peer.
NetSayHello(n) ==
    LET me == net.node[n]
        peer_info == me.stream.body
    IN  /\ me.dialed # Nobody
        /\ me.stream.kind = "Ack"
        /\ net' = [net EXCEPT
                     !.node[n] =
                         [me EXCEPT
                            !.queue = Append(@, BroadcastOf(n, "NewPeer", peer_info)),
                            !.peers = add_peer_of(Info(n), @, peer_info).peers,
                            !.dialed = Nobody,
                            !.stream = None]]
        /\ UNCHANGED single

\* serve_request of Request::Hello(p) on node n: add_peer, Response::Ack
\* written to the stream, where the say_hello of the sender reads it.
NetServeHello(n) ==
    /\ NetTaken(n, "Request", "Hello")
    /\ LET e == Head(net.node[n].queue)
       IN  net' = [net EXCEPT
                     !.node[n].queue = Tail(@),
                     !.node[n].peers = add_peer_of(Info(n), @, e.sender).peers,
                     !.node[e.sender.id].stream = Ack(Info(n))]
    /\ UNCHANGED single

\* serve_request of Request::NewTransaction whose handle_incoming_transaction
\* does not broadcast what it admits.
NetServeNewTransaction_NoRelay(n) ==
    /\ NetTaken(n, "Request", "NewTransaction")
    /\ LET me == net.node[n]
           e == Head(me.queue)
           r == add_new_transaction(me.chain, e.body)
       IN  net' = [net EXCEPT
                     !.node[n] =
                         [me EXCEPT
                            !.peers = add_peer_of(Info(n), @, e.sender).peers,
                            !.chain = r.chain,
                            !.admissions = IF r.ret THEN Append(@, e.body.id) ELSE @,
                            !.queue = Tail(@)]]
    /\ UNCHANGED single

\* serve_request of Request::NewTransaction(p, t) on node n: add_peer,
\* handle_incoming_transaction
NetServeNewTransaction(n) ==
    /\ NetTaken(n, "Request", "NewTransaction")
    /\ LET me == net.node[n]
           e == Head(me.queue)
           r == add_new_transaction(me.chain, e.body)
       IN  net' = [net EXCEPT
                     !.node[n] =
                         [me EXCEPT
                            !.peers = add_peer_of(Info(n), @, e.sender).peers,
                            !.chain = r.chain,
                            !.admissions = IF r.ret THEN Append(@, e.body.id) ELSE @,
                            !.queue = IF r.ret
                                      THEN Append(Tail(@),
                                                  BroadcastOf(n, "NewTransaction", e.body))
                                      ELSE Tail(@)]]
    /\ UNCHANGED single

\* serve_request of Request::NewBlock(p, b) on node n: add_peer,
\* handle_incoming_block
NetServeNewBlock(n) ==
    /\ NetTaken(n, "Request", "NewBlock")
    /\ LET me == net.node[n]
           e == Head(me.queue)
           r == add_new_block(me.chain, e.body)
       IN  net' = [net EXCEPT
                     !.node[n] =
                         [me EXCEPT
                            !.peers = add_peer_of(Info(n), @, e.sender).peers,
                            !.chain = r.chain,
                            !.queue = IF r.ret
                                      THEN Append(Tail(@),
                                                  BroadcastOf(n, "NewBlock",
                                                              last_block(r.chain)))
                                      ELSE Tail(@)]]
    /\ UNCHANGED single

\* serve_request of Request::NewPeer(p, q) on node n: add_peer of the sender,
\* handle_incoming_peer
NetServeNewPeer(n) ==
    /\ NetTaken(n, "Request", "NewPeer")
    /\ LET me == net.node[n]
           e == Head(me.queue)
           r == add_peer_of(Info(n), add_peer_of(Info(n), me.peers, e.sender).peers, e.body)
       IN  net' = [net EXCEPT
                     !.node[n] =
                         [me EXCEPT
                            !.peers = r.peers,
                            !.queue = IF r.ret
                                      THEN Append(Tail(@), BroadcastOf(n, "NewPeer", e.body))
                                      ELSE Tail(@)]]
    /\ UNCHANGED single

\* Event::Broadcast(request) on node n: broadcast_request connects to every
\* peer of the snapshot and writes the request, with this node as its sender.
NetBroadcastRequest(n) ==
    /\ net.node[n].dialed = Nobody
    /\ net.node[n].queue # <<>>
    /\ Head(net.node[n].queue).event = "Broadcast"
    /\ LET e == Head(net.node[n].queue)
           sent == [net.node EXCEPT ![n].queue = Tail(@)]
       IN  net' = [net EXCEPT
                     !.node = Forward(sent, Listening(net.node[n].peers),
                                      Request(e.kind, Info(n), e.body))]
    /\ UNCHANGED single

\* One turn of the loop of Node::run on node n, or the end of the call it
\* waits in.
Turn(n) ==
    \/ NetCommandNewTrans(n)
    \/ NetCommandMine(n)
    \/ NetCommandAddPeer(n)
    \/ NetSayHello(n)
    \/ NetServeHello(n)
    \/ NetServeNewTransaction(n)
    \/ NetServeNewBlock(n)
    \/ NetServeNewPeer(n)
    \/ NetBroadcastRequest(n)

GossipNext ==
    \/ \E n \in GossipNodes : \E c \in CommandsOf(n) : Issue(n, c)
    \/ \E n \in GossipNodes : Turn(n)

GossipSpec == Init /\ [][GossipNext]_vars

\* The thread of Node::run of every node is scheduled: a turn that stays
\* possible is taken. Nothing obliges an operator to type a command.
GossipLive == GossipSpec /\ \A n \in GossipNodes : WF_vars(Turn(n))

\* --------------------------------------- several nodes and one transaction
\* The network while no block is mined: the operators type new_trans and
\* add_peer only.
DeliveryCommandsOf(n) ==
    {CommandOf(n, "NewTrans", <<>>)} \cup {CommandOf(n, "AddPeer", m) : m \in GossipNodes}

DeliveryNext ==
    \/ \E n \in GossipNodes : \E c \in DeliveryCommandsOf(n) : Issue(n, c)
    \/ \E n \in GossipNodes : NetCommandNewTrans(n)
    \/ \E n \in GossipNodes : NetCommandAddPeer(n)
    \/ \E n \in GossipNodes : NetSayHello(n)
    \/ \E n \in GossipNodes : NetServeHello(n)
    \/ \E n \in GossipNodes : NetServeNewTransaction(n)
    \/ \E n \in GossipNodes : NetServeNewPeer(n)
    \/ \E n \in GossipNodes : NetBroadcastRequest(n)

DeliverySpec == Init /\ [][DeliveryNext]_vars

\* ------------------------------------------------------------------ claims

\* The places a transaction occupies: <<0, i>> is position i of the pool,
\* <<b, i>> position i of the transactions of block b.
Places(c) ==
    {<<0, i>> : i \in 1..Len(c.current_transactions)}
    \cup UNION {{<<b, i>> : i \in 1..Len(c.blocks[b].transactions)} :
                b \in 1..Len(c.blocks)}
IdAt(c, place) ==
    IF place[1] = 0 THEN c.current_transactions[place[2]].id
    ELSE c.blocks[place[1]].transactions[place[2]].id

\* C1: in every state of the node, no transaction id occurs at two places of
\* the pending pool and the transaction lists of the blocks of the chain.
C1_NoTransactionIdTwice ==
    \A p, q \in Places(chain) : p # q => IdAt(chain, p) # IdAt(chain, q)

\* C2: in every state of the node the chain has at least one block, so that
\* last_block has a block to return.
C2_BlocksNeverEmpty == Len(chain.blocks) >= 1 /\ last_block(chain) # Panicked

\* A peer has answered HowAreYou with the empty list and update_chain has
\* returned false.
C2_Witness_EmptyListRefused ==
    /\ stream.kind = "MyBlocks" /\ stream.body = <<>>
    /\ ret.kind = "update_chain" /\ ret.val = FALSE

\* A call of the ledger has returned: incoming is the call, ret what it
\* returned, before.chain the ledger before the call and chain the ledger now.
Did(kind) == incoming.event = "Call" /\ incoming.kind = kind /\ ret.kind = kind

\* The conditions of add_new_block on a candidate.
Accepts(c, candidate) ==
    /\ candidate.index = Len(c.blocks)
    /\ candidate.previous_hash = get_hash(c.blocks[Len(c.blocks)])
    /\ valid_proof(c.blocks[Len(c.blocks)].proof, candidate.proof)

\* C3: add_new_block(candidate) returns true and appends the candidate if and
\* only if the candidate's index is the number of blocks, its previous_hash
\* is the hash of the last block and valid_proof(last proof, its proof) holds;
\* otherwise the blocks stay as they are.
C3_AppendIffNextValidBlock ==
    Did("add_new_block") =>
        /\ ret.val = Accepts(before.chain, incoming.body)
        /\ chain.blocks = IF Accepts(before.chain, incoming.body)
                          THEN Append(before.chain.blocks, incoming.body)
                          ELSE before.chain.blocks

\* add_new_block has appended a candidate to a chain of two blocks.
C3_Witness_Appended ==
    /\ Did("add_new_block") /\ ret.val
    /\ Len(before.chain.blocks) = 2
    /\ Len(chain.blocks) = 3 /\ last_block(chain) = incoming.body

\* The transaction id is in the pool or in a block of the ledger.
Known(c, id) == id \in IdsOf(c.current_transactions) \cup BlockIds(c.blocks)

\* C4: add_new_transaction(tx) returns false and changes nothing when tx's id
\* is in the pool or in a block; otherwise it returns true, tx is added at
\* the end of the pool and the blocks are unchanged.
C4_AdmitOncePerId ==
    Did("add_new_transaction") =>
        IF Known(before.chain, incoming.body.id)
        THEN ret.val = FALSE /\ chain = before.chain
        ELSE /\ ret.val = TRUE
             /\ chain.current_transactions =
                    Append(before.chain.current_transactions, incoming.body)
             /\ chain.blocks = before.chain.blocks

\* add_new_transaction has refused a transaction whose id is in a block and
\* not in the pool, and which is not the transaction the block holds.
C4_Witness_CommittedNotReadmitted ==
    /\ Did("add_new_transaction") /\ ret.val = FALSE
    /\ incoming.body.id \in BlockIds(before.chain.blocks)
    /\ incoming.body.id \notin IdsOf(before.chain.current_transactions)
    /\ \A b \in 1..Len(chain.blocks) : incoming.body \notin Range(chain.blocks[b].transactions)

\* C5: create_new_block(proof, previous_hash) puts exactly the pending
\* transactions into the new block, which has the given proof and
\* previous_hash; afterwards the pool is empty, the chain is the old chain
\* and the new block, and the returned block is the new last block.
C5_CreateBlockDrainsPool ==
    Did("create_new_block") =>
        /\ ret.val.transactions = before.chain.current_transactions
        /\ ret.val.proof = incoming.body[1]
        /\ ret.val.previous_hash = incoming.body[2]
        /\ chain.current_transactions = <<>>
        /\ chain.blocks = Append(before.chain.blocks, ret.val)
        /\ ret.val = last_block(chain)

\* create_new_block has made the second block of a chain from two pending
\* transactions.
C5_Witness_TwoTransactionsMoved ==
    /\ Did("create_new_block")
    /\ Len(before.chain.current_transactions) = 2
    /\ Len(chain.blocks) = 2

\* C6: when add_new_block accepts a candidate, the transactions left in the
\* pool are exactly the pending transactions whose id is not the id of a
\* transaction of the candidate, each of them once.
C6_AcceptPurgesCandidateIds ==
    Did("add_new_block") /\ ret.val =>
        /\ Range(chain.current_transactions) =
               {t \in Range(before.chain.current_transactions) :
                    t.id \notin IdsOf(incoming.body.transactions)}
        /\ Len(chain.current_transactions) = Cardinality(Range(chain.current_transactions))

\* add_new_block has accepted a candidate with the ids of the first and the
\* second of three pending transactions: only the third is still pending.
C6_Witness_TwoPurgedOneKept ==
    /\ Did("add_new_block") /\ ret.val
    /\ Len(before.chain.current_transactions) = 3
    /\ IdsOf(incoming.body.transactions) =
           {before.chain.current_transactions[1].id, before.chain.current_transactions[2].id}
    /\ chain.current_transactions = <<before.chain.current_transactions[3]>>

\* C7: when add_new_block rejects a candidate it returns false and leaves
\* the blocks and the pool as they were, whatever the reason.
C7_RejectChangesNothing ==
    Did("add_new_block") /\ ~Accepts(before.chain, incoming.body) =>
        ret.val = FALSE /\ chain = before.chain

\* add_new_block has rejected a candidate for the next slot whose proof is
\* valid and whose previous_hash is wrong, with the id of a pending transaction.
C7_Witness_RejectedWithPendingId ==
    /\ Did("add_new_block") /\ ~ret.val
    /\ incoming.body.index = Len(before.chain.blocks)
    /\ valid_proof(last_block(before.chain).proof, incoming.body.proof)
    /\ incoming.body.previous_hash # get_hash(last_block(before.chain))
    /\ IdsOf(incoming.body.transactions) \cap IdsOf(before.chain.current_transactions) # {}

\* C8 as stated: add_new_block rejects every candidate whose index is equal
\* to or less than the number of blocks, and every candidate whose index is
\* more than one past the number of blocks.
C8_RejectsIndexUpToLength ==
    Did("add_new_block")
    /\ (incoming.body.index <= Len(before.chain.blocks)
        \/ incoming.body.index > Len(before.chain.blocks) + 1)
    => ret.val = FALSE

\* C8 as amended: add_new_block rejects every candidate whose index is less
\* than the number of blocks (at most the index of the last block) and every
\* candidate whose index is more than the number of blocks (more than one
\* past the index of the last block).
C8_RejectsIndexOtherThanLength ==
    Did("add_new_block") /\ incoming.body.index # Len(before.chain.blocks)
    => ret.val = FALSE /\ chain = before.chain

\* add_new_block has rejected a candidate that links to the last block with
\* a valid proof and has the index one past the next slot.
C8_Witness_FutureIndexRejected ==
    /\ Did("add_new_block") /\ ~ret.val
    /\ incoming.body.index = Len(before.chain.blocks) + 1
    /\ incoming.body.previous_hash = get_hash(last_block(before.chain))
    /\ valid_proof(last_block(before.chain).proof, incoming.body.proof)

\* update_chain(new_blocks) has returned: resolve_conflict had read the
\* MyBlocks reply that stream holds.
DidUpdateChain == resolve.on /\ stream.kind = "MyBlocks" /\ ret.kind = "update_chain"

C10_AdoptKeepsPendingNotInNewChain ==
    DidUpdateChain /\ ret.val =>
        /\ chain.blocks = stream.body
        /\ Range(chain.current_transactions) =
               {t \in Range(before.chain.current_transactions) :
                    t.id \notin BlockIds(stream.body)}
        /\ Len(chain.current_transactions) = Cardinality(Range(chain.current_transactions))

\* update_chain has adopted a chain that holds the id of one of two pending
\* transactions: the other one is still pending.
C10_Witness_OneDroppedOneKept ==
    /\ DidUpdateChain /\ ret.val
    /\ Len(before.chain.current_transactions) = 2
    /\ Len(chain.current_transactions) = 1
    /\ IdsOf(before.chain.current_transactions) \cap BlockIds(stream.body) # {}

\* A step of the test has been made: incoming is the step, ret the answer of
\* valid_chain for chain, before.chain the chain before the step.
Tested(kind) == incoming.event = "Call" /\ incoming.kind = kind /\ ret.kind = "valid_chain"

\* The first block is the genesis sentinel: index 0, proof 100, no
\* transactions, previous_hash "1".
Sentinel(b) ==
    b.index = 0 /\ b.proof = 100 /\ b.transactions = <<>> /\ b.previous_hash = One

\* Every block after the first carries the hash of the block before it and
\* a proof that is valid after the proof of the block before it.
Linked(blocks) ==
    \A i \in 2..Len(blocks) :
        /\ blocks[i].previous_hash = get_hash(blocks[i - 1])
        /\ valid_proof(blocks[i - 1].proof, blocks[i].proof)

\* C11: valid_chain answers true if and only if the first block is the
\* genesis sentinel (index 0, proof 100, no transactions, previous_hash "1")
\* and every later block is linked to the block before it by hash and proof.
C11_ValidIffSentinelAndLinked ==
    ret.kind = "valid_chain" => ret.val = (Sentinel(chain.blocks[1]) /\ Linked(chain.blocks))

\* C12: valid_chain is true of the fresh chain, and after create_new_block(p, h)
\* on a valid chain it is true exactly when valid_proof(last proof, p) holds
\* and h is the hash of the block that was last.
C12_ValidAfterCreateIffProofAndHash ==
    /\ Tested("valid_chain") /\ chain = Blockchain_new => ret.val = TRUE
    /\ Tested("create_new_block") /\ valid_chain(before.chain) =>
           ret.val = (/\ valid_proof(last_block(before.chain).proof, incoming.body[1])
                      /\ incoming.body[2] = get_hash(last_block(before.chain)))

\* create_new_block(456, hash of the last block) on a valid chain of two
\* blocks: valid_chain answers false for the three blocks.
C12_Witness_UnrelatedProofInvalid ==
    /\ Tested("create_new_block") /\ valid_chain(before.chain)
    /\ Len(before.chain.blocks) = 2
    /\ incoming.body[1] = 456
    /\ incoming.body[2] = get_hash(last_block(before.chain))
    /\ ret.val = FALSE

\* C13: after the proof, the previous_hash or the transaction list of one
\* block of a valid chain has been changed, at any position, valid_chain
\* answers false.
C13_TamperedIsInvalid ==
    Tested("tamper") /\ valid_chain(before.chain)
    /\ incoming.body.field \in {"proof", "previous_hash", "transactions"}
    => ret.val = FALSE

\* The transactions of the ledger: those of the pool and of all blocks.
Held(c) ==
    Range(c.current_transactions)
    \cup UNION {Range(c.blocks[b].transactions) : b \in 1..Len(c.blocks)}

\* C14: a transaction the node has admitted (add_new_transaction returned
\* true) is, in every later state, in the pending pool or in a block of the
\* node's chain.
C14_AdmittedNeverLost == admitted \subseteq Held(chain)

\* serve_request has returned for the request the loop took.
DidServe == incoming.event = "Request" /\ ~IsNone(ret)

\* C15: every request the loop serves is answered with exactly one response
\* on its connection: MyBlocks for HowAreYou, Ack(this node) for Hello,
\* NewTransaction, NewBlock and NewPeer.
C15_OneResponsePerRequest ==
    DidServe =>
        ret.response = IF incoming.kind = "HowAreYou"
                       THEN <<MyBlocks(before.chain.blocks)>>
                       ELSE <<Ack(basic_info)>>

\* C16: when resolve_conflicts returns, the node's chain is at least as
\* long as every valid chain a peer of its registry has answered HowAreYou
\* with during the call.
C16_AtLeastAsLongAsEveryAnswer ==
    ret.kind = "resolve_conflicts" =>
        \A n \in before.resolve.seen : Len(chain.blocks) >= n

\* resolve_conflicts has returned after two peers answered, one with a valid
\* chain of two blocks and one with a valid chain of three: the node has
\* three blocks.
C16_Witness_TwoPeersAnswered ==
    /\ ret.kind = "resolve_conflicts"
    /\ Cardinality(peers) = 2
    /\ before.resolve.seen = {2, 3}
    /\ Len(chain.blocks) = 3

\* C17: handling an event never ends the event loop: no handler panics, so the
\* worker always goes back to waiting for the next event.
C17_EventLoopNeverPanics == ~IsNone(ret) => ret.kind # "panic"

\* C18: whatever the connections it has accepted carried, the listener is still
\* accepting, so that a well-formed request on a later connection reaches the loop.
C18_ListenerKeepsAccepting == listener = "accepting"

\* C19: add_peer(peer) returns false and leaves the registry as it was when
\* peer is this node's own PeerInfo or is already in the registry; otherwise it
\* returns true and the registry is the old one with peer inserted. So a
\* PeerInfo added twice is reported true, then false.
C19_AddPeerTrueOnlyWhenNew ==
    Did("add_peer") =>
        IF incoming.body = basic_info \/ incoming.body \in before.peers
        THEN ret.val = FALSE /\ peers = before.peers
        ELSE ret.val = TRUE /\ peers = before.peers \cup {incoming.body}

\* The second add_peer of a PeerInfo that is in the registry (which only an
\* add_peer that returned true has put there) has returned false, next to
\* another peer with the same id.
C19_Witness_SecondAddRefused ==
    /\ Did("add_peer")
    /\ incoming.body = [id |-> "n1", address |-> 2]
    /\ incoming.body \in before.peers
    /\ [id |-> "n1", address |-> 1] \in peers
    /\ ret.val = FALSE

\* C20: this node's own PeerInfo is never a member of its registry.
C20_SelfNeverInRegistry == basic_info \notin peers

\* A NewPeer request that carries this node's own PeerInfo has been served:
\* its sender is in the registry, the node itself is not.
C20_Witness_OwnInfoRelayed ==
    /\ incoming.event = "Request"
    /\ incoming.kind = "NewPeer"
    /\ incoming.body = basic_info
    /\ ret.kind = "add_peer"
    /\ ret.val = FALSE
    /\ peers = {[id |-> "n1", address |-> 1]}

\* Command::Mine has been handled.
Mined == incoming.event = "Command" /\ incoming.kind = "Mine" /\ ret.kind = "mine"

Enqueued == Len(events) = Len(before.events) + 1 /\ ~IsNone(ret)

\* C22: a Broadcast(NewPeer(p)) is sent to the channel only by a handler in
\* which add_peer(p) has returned true: p was not in the registry and is not
\* this node.
C22_GossipOnlyNewlyAddedPeer ==
    (Enqueued /\ events[Len(events)].kind = "NewPeer") =>
        LET p == events[Len(events)].body
        IN  /\ p # basic_info
            /\ p \notin before.peers
            /\ p \in peers
            /\ ret.val = TRUE

\* C23: broadcast_request attempts a connection to every peer of the snapshot
\* it took, whatever happened with the peers before.
C23_BroadcastReachesWholeSnapshot ==
    (incoming.event = "Broadcast" /\ ret.kind = "broadcast_request") =>
        ret.val = before.peers

\* serve_request has handled a request of the given variant.
ServedRequest(kind) == incoming.event = "Request" /\ incoming.kind = kind /\ ~IsNone(ret)

\* C24: serving NewBlock(b) sends Broadcast(NewBlock) of the node's latest block,
\* which is b, if and only if add_new_block accepted b; when b is rejected
\* nothing is sent, chain and pool are as before and no resolve_conflicts
\* is started.
C24_BlockBroadcastIffAccepted ==
    ServedRequest("NewBlock") =>
        /\ ret.val = Accepts(before.chain, incoming.body)
        /\ IF ret.val
           THEN /\ last_block(chain) = incoming.body
                /\ events = Append(before.events, Broadcast("NewBlock", incoming.body))
           ELSE /\ events = before.events
                /\ chain = before.chain
                /\ resolve = NotResolving
                /\ IsNone(stream)

\* A block two places ahead of the chain was rejected while a transaction
\* was pending: nothing sent, nothing changed.
C24_Witness_TooNewDropped ==
    /\ ServedRequest("NewBlock")
    /\ incoming.body.index = Len(chain.blocks) + 1
    /\ incoming.body.previous_hash = get_hash(last_block(chain))
    /\ valid_proof(last_block(chain).proof, incoming.body.proof)
    /\ ~ret.val
    /\ chain.current_transactions # <<>>

\* C25: serving NewTransaction(tx) sends exactly one
\* Broadcast(NewTransaction(self, tx)) when tx is newly admitted, and sends
\* nothing and leaves the pool as it was when the id of tx is in the pool or in
\* a block.
C25_TransactionBroadcastIffAdmitted ==
    ServedRequest("NewTransaction") =>
        IF Known(before.chain, incoming.body.id)
        THEN /\ ~ret.val
             /\ events = before.events
             /\ chain = before.chain
        ELSE /\ ret.val
             /\ events = Append(before.events, Broadcast("NewTransaction", incoming.body))
             /\ events[Len(events)].sender = basic_info
             /\ chain.current_transactions =
                    Append(before.chain.current_transactions, incoming.body)

\* A transaction whose id is in a block of the chain was dropped without a broadcast.
C25_Witness_CommittedIdDropped ==
    /\ ServedRequest("NewTransaction")
    /\ incoming.body.id \in BlockIds(chain.blocks)
    /\ incoming.body.id \notin IdsOf(chain.current_transactions)
    /\ ~ret.val
    /\ events = <<>>

\* C26: after serve_request of a request of any variant whose sender is not
\* this node, the sender is in the registry; it is added before the request
\* is dispatched, so a NewPeer that names its own sender finds it known and
\* sends no broadcast.
C26_SenderAddedBeforeDispatch ==
    DidServe =>
        /\ incoming.sender # basic_info => incoming.sender \in peers
        /\ peers \subseteq before.peers \cup {incoming.sender, incoming.body}
        /\ (incoming.kind = "NewPeer" /\ incoming.body = incoming.sender) =>
               events = before.events

\* A peer the node did not know has announced itself with NewPeer(p, p).
C26_Witness_SenderAnnouncesItself ==
    /\ ServedRequest("NewPeer")
    /\ incoming.sender = [id |-> "n1", address |-> 1]
    /\ incoming.body = incoming.sender
    /\ before.peers = {}
    /\ peers = {incoming.sender}

\* C27: the block that mine creates holds every transaction that was pending,
\* followed by the reward transaction (sender "0", recipient this node's id);
\* the pool is empty afterwards, the chain is the old one plus that block, and
\* the block fits the old last block: its index, its hash, and a valid proof.
C27_MinedBlockHoldsPendingAndReward ==
    Mined =>
        LET block == last_block(chain)
            reward == Transaction(Uuid(uuid), "0", basic_info.id, 1)
        IN  /\ chain.blocks = Append(before.chain.blocks, block)
            /\ block.transactions = Append(before.chain.current_transactions, reward)
            /\ chain.current_transactions = <<>>
            /\ Accepts(before.chain, block)

\* The node has mined with a transaction pending, on a chain of two blocks.
C27_Witness_MinedWithPending ==
    /\ Mined
    /\ Len(before.chain.blocks) = 2
    /\ Len(before.chain.current_transactions) = 1
    /\ Len(last_block(chain).transactions) = 2
    /\ last_block(chain).transactions[2].sender = "0"

\* C28: mine sends exactly one event to the channel, the Broadcast(NewBlock) of
\* the block it has created; the reward transaction is in that block and in
\* no Broadcast(NewTransaction).
C28_MineBroadcastsOnlyItsBlock ==
    Mined =>
        /\ events = Append(before.events, Broadcast("NewBlock", last_block(chain)))
        /\ \E i \in DOMAIN last_block(chain).transactions :
               last_block(chain).transactions[i].sender = "0"
        /\ \A i \in DOMAIN events :
               events[i].kind = "NewTransaction" => events[i].body.sender # "0"

\* The node has mined while it has a peer to broadcast to.
C28_Witness_MinedWithPeer ==
    /\ Mined
    /\ peers # {}
    /\ Len(events) = 1
    /\ events[1].kind = "NewBlock"
    /\ events[1].body.index = Len(chain.blocks) - 1

\* C29: resolve_conflicts returns true if and only if update_chain returned
\* true for at least one peer, and it has asked every peer of the registry,
\* whatever the calls to the others ended in.
C29_ResolveTrueIffSomeAdopted ==
    ret.kind = "resolve_conflicts" =>
        /\ ret.val = (before.resolve.adopted > 0)
        /\ before.resolve.asked = peers
        /\ before.resolve.adopted + before.resolve.failed <= Cardinality(peers)

\* Of two peers one has failed and the chain of the other has been adopted.
C29_Witness_OneFailedOneAdopted ==
    /\ ret.kind = "resolve_conflicts"
    /\ Cardinality(peers) = 2
    /\ before.resolve.failed = 1
    /\ before.resolve.adopted = 1
    /\ ret.val = TRUE

\* say_hello has read something other than an Ack, or nothing; resolve_conflict
\* has read something other than MyBlocks, or nothing.
WrongReply ==
    /\ ~IsNone(ret)
    /\ \/ incoming.kind = "AddPeer" /\ stream.kind \in {"MyBlocks", "NoResponse"}
       \/ resolve.on /\ stream.kind \in {"Ack", "NoResponse"}

IsPrefix(s, t) == Len(s) <= Len(t) /\ SubSeq(t, 1, Len(s)) = s

\* C31: whatever the last step was, unless it was an update_chain that
\* returned true, the blocks before it are a prefix of the blocks after it.
C31_BlocksOnlyAppended ==
    \/ IsPrefix(before.chain.blocks, chain.blocks)
    \/ DidUpdateChain /\ ret.val

\* update_chain has refused a valid list as long as the chain of three
\* blocks, and the three blocks are still there.
C31_Witness_FailedAdoptKeepsBlocks ==
    /\ DidUpdateChain /\ ~ret.val
    /\ Len(before.chain.blocks) = 3
    /\ Len(stream.body) = 3
    /\ stream.body # before.chain.blocks
    /\ chain.blocks = before.chain.blocks

\* C32: the block at position i of the chain (counting from 0) has index i.
C32_IndexIsPosition == \A i \in 1..Len(chain.blocks) : chain.blocks[i].index = i - 1

\* C33: the chain of the node is a valid chain in every state: its first block
\* is the genesis sentinel and every later block is linked to the one before it.
C33_OwnChainAlwaysValid == Sentinel(chain.blocks[1]) /\ Linked(chain.blocks)

\* The channel of every node is empty.
Drained == \A n \in GossipNodes : net.node[n].queue = <<>>

\* The loop of node n waits inside say_hello for a response.
Waiting(n) == net.node[n].dialed # Nobody

\* C34: gossip terminates: with connections that succeed and the loop of every
\* node scheduled, once the operators type no more commands the channels of
\* all nodes become empty and stay empty.
C34_GossipTerminates == <>[]Drained

\* Whenever no loop waits inside say_hello for good, the channels become empty
\* and stay empty: the broadcasts by themselves die out.
GossipDiesOut == (<>[](\E n \in GossipNodes : Waiting(n))) \/ <>[]Drained

\* Every channel is empty and no loop waits for a response: every queued
\* event has been handled.
Quiescent == Drained /\ \A n \in GossipNodes : ~Waiting(n)

\* No node has mined or adopted a block.
Unmined == \A n \in GossipNodes : Len(net.node[n].chain.blocks) = 1

\* How many times add_new_transaction of node n has returned true for id.
Admissions(n, id) ==
    Cardinality({i \in 1..Len(net.node[n].admissions) : net.node[n].admissions[i] = id})

====
